---- MODULE Spec2Model ----
(***************************************************************************)
(* A model of @killiandvcz/rest: the Rest application (route table,        *)
(* middleware table, mounts, service), the flattening of the mount tree,   *)
(* the resolution and ordering of the middlewares of a route, the          *)
(* construction of the dispatch table, and the execution of one request    *)
(* through a composed chain.                                               *)
(*                                                                         *)
(* JavaScript strings are sequences of one-character strings, so that the  *)
(* regular expressions of the source are computed character by character.  *)
(***************************************************************************)
EXTENDS Integers, Sequences, FiniteSets, TLC

\* routes, middlewares, mounts, service: the private fields #routes,
\* #middlewares, #mounts and #service of every Rest instance.
\* last: the outcome of the last registration call (the error it threw).
\* table: the value last read from the getter routes of one instance.
\* req: the request being served, by a dispatch function of that table or
\*      by the function the getter fetch returns.
\* ctxs: the Contexts of the requests that are served concurrently.
VARIABLES routes, middlewares, mounts, service, last, table, req, ctxs, parsing, flat, detached

vars == <<routes, middlewares, mounts, service, last, table, req, ctxs, parsing, flat, detached>>

(***************************************************************************)
(* Strings                                                                 *)
(***************************************************************************)

\* The characters \w of a JavaScript regular expression that the paths of
\* the model use.
WordChars == {"a", "b", "c", "d", "e", "i", "p", "s", "u", "v", "x", "y", "1", "7", "_"}

\* String.prototype.replace(/\/\//g, "/"): one left-to-right pass over the
\* non-overlapping occurrences of "//".
RECURSIVE replaceSlashSlash(_)
replaceSlashSlash(s) ==
    IF Len(s) < 2 THEN s
    ELSE IF s[1] = "/" /\ s[2] = "/"
         THEN <<"/">> \o replaceSlashSlash(SubSeq(s, 3, Len(s)))
         ELSE <<s[1]>> \o replaceSlashSlash(Tail(s))

\* String.prototype.replace(/\/$/, ""): one trailing "/" is removed.
stripTrailingSlash(s) ==
    IF Len(s) > 0 /\ s[Len(s)] = "/" THEN SubSeq(s, 1, Len(s) - 1) ELSE s

\* The path of a flattened route: `${prefix}${path}` with the two replaces.
routePath(prefix, p) == stripTrailingSlash(replaceSlashSlash(prefix \o p))

\* The helper normalizePath of the getter middlewares; the empty result
\* becomes "/".
normalizePath(p) ==
    LET r == stripTrailingSlash(replaceSlashSlash(p))
    IN  IF r = <<>> THEN <<"/">> ELSE r

\* A mount that gives no prefix to the routes of the mounted instance.
mountPrefixNone(q) == <<>>

\* m.path === "/" ? "" : m.path
mountPrefix(q) == IF q = <<"/">> THEN <<>> ELSE q

RECURSIVE Reverse(_)
Reverse(s) == IF s = <<>> THEN <<>> ELSE Reverse(Tail(s)) \o <<Head(s)>>

RECURSIVE Flat(_)
Flat(ss) == IF ss = <<>> THEN <<>> ELSE Head(ss) \o Flat(Tail(ss))

(***************************************************************************)
(* The regular expression that #middlewaresOf builds from a pattern        *)
(***************************************************************************)

\* The pattern after the three replaces, as a sequence of regex tokens:
\* "*" becomes .+ (any), ":" followed by word characters becomes ([^/]+)
\* (seg), every other character (escaped where it is special) matches
\* itself.
RECURSIVE skipWord(_)
skipWord(s) ==
    IF s # <<>> /\ Head(s) \in WordChars THEN skipWord(Tail(s)) ELSE s

RECURSIVE regexPattern(_)
regexPattern(p) ==
    IF p = <<>> THEN <<>>
    ELSE IF Head(p) = "*"
         THEN <<[t |-> "any", c |-> ""]>> \o regexPattern(Tail(p))
    ELSE IF Head(p) = ":" /\ Len(p) >= 2 /\ p[2] \in WordChars
         THEN <<[t |-> "seg", c |-> ""]>> \o regexPattern(skipWord(Tail(p)))
    ELSE <<[t |-> "lit", c |-> Head(p)]>> \o regexPattern(Tail(p))

\* new RegExp("^" + tokens + "$").test(s)
RECURSIVE exactTest(_, _)
exactTest(tokens, s) ==
    IF tokens = <<>> THEN s = <<>>
    ELSE LET h == Head(tokens) IN
         CASE h.t = "lit" ->
                  /\ s # <<>>
                  /\ Head(s) = h.c
                  /\ exactTest(Tail(tokens), Tail(s))
           [] h.t = "any" ->
                  \E k \in 1..Len(s) :
                      exactTest(Tail(tokens), SubSeq(s, k + 1, Len(s)))
           [] h.t = "seg" ->
                  \E k \in 1..Len(s) :
                      /\ \A j \in 1..k : s[j] # "/"
                      /\ exactTest(Tail(tokens), SubSeq(s, k + 1, Len(s)))

\* new RegExp("^" + tokens + "(/.*)?$").test(s)
RECURSIVE prefixTest(_, _)
prefixTest(tokens, s) ==
    IF tokens = <<>> THEN s = <<>> \/ Head(s) = "/"
    ELSE LET h == Head(tokens) IN
         CASE h.t = "lit" ->
                  /\ s # <<>>
                  /\ Head(s) = h.c
                  /\ prefixTest(Tail(tokens), Tail(s))
           [] h.t = "any" ->
                  \E k \in 1..Len(s) :
                      prefixTest(Tail(tokens), SubSeq(s, k + 1, Len(s)))
           [] h.t = "seg" ->
                  \E k \in 1..Len(s) :
                      /\ \A j \in 1..k : s[j] # "/"
                      /\ prefixTest(Tail(tokens), SubSeq(s, k + 1, Len(s)))

\* The filter of #middlewaresOf on one flattened middleware path.
matches(mpath, path) ==
    \/ mpath = <<"*">>
    \/ exactTest(regexPattern(mpath), path)
    \/ prefixTest(regexPattern(mpath), path)

(***************************************************************************)
(* The comparator of #middlewaresOf and Array.prototype.sort               *)
(***************************************************************************)

\* (s.match(/\*/g) || []).length
RECURSIVE countStars(_)
countStars(s) ==
    IF s = <<>> THEN 0
    ELSE (IF Head(s) = "*" THEN 1 ELSE 0) + countStars(Tail(s))

\* (s.match(/:[^/]+/g) || []).length: a ":" followed by at least one
\* character other than "/" is one match, which runs up to the next "/".
RECURSIVE skipSegment(_)
skipSegment(s) ==
    IF s # <<>> /\ Head(s) # "/" THEN skipSegment(Tail(s)) ELSE s

RECURSIVE countParams(_)
countParams(s) ==
    IF s = <<>> THEN 0
    ELSE IF Head(s) = ":" /\ Len(s) >= 2 /\ s[2] # "/"
         THEN 1 + countParams(skipSegment(Tail(s)))
         ELSE countParams(Tail(s))

\* s.split("/").length
RECURSIVE countSlashes(_)
countSlashes(s) ==
    IF s = <<>> THEN 0
    ELSE (IF Head(s) = "/" THEN 1 ELSE 0) + countSlashes(Tail(s))

segments(s) == countSlashes(s) + 1

\* The comparator: negative when a sorts before b.
compare(a, b) ==
    IF a.path = <<"*">> THEN 1
    ELSE IF b.path = <<"*">> THEN -1
    ELSE IF countStars(a.path) # countStars(b.path)
         THEN countStars(a.path) - countStars(b.path)
    ELSE IF countParams(a.path) # countParams(b.path)
         THEN countParams(a.path) - countParams(b.path)
    ELSE IF segments(a.path) # segments(b.path)
         THEN segments(b.path) - segments(a.path)
    ELSE IF Len(a.path) # Len(b.path)
         THEN Len(b.path) - Len(a.path)
    ELSE a.order - b.order

\* Array.prototype.sort(compare) of the engine: a stable insertion (merge)
\* sort that moves a later element x before an earlier element y exactly
\* when compare(x, y) < 0.
RECURSIVE insertSorted(_, _)
insertSorted(acc, x) ==
    IF acc # <<>> /\ compare(x, acc[Len(acc)]) < 0
    THEN insertSorted(SubSeq(acc, 1, Len(acc) - 1), x) \o <<acc[Len(acc)]>>
    ELSE acc \o <<x>>

RECURSIVE sortFrom(_, _)
sortFrom(acc, s) ==
    IF s = <<>> THEN acc ELSE sortFrom(insertSorted(acc, Head(s)), Tail(s))

sort(s) == sortFrom(<<>>, s)

(***************************************************************************)
(* Rest: registration                                                      *)
(***************************************************************************)

\* The Rest instances of the model.
Apps == {"A", "B", "C"}

\* A JavaScript value passed as a path: a string, or a value that is none.
Str(s) == [type |-> "string", str |-> s]
Undefined == [type |-> "undefined", str |-> <<>>]

\* The #service of an instance that has none.
Null == "null"

\* The JavaScript values of the model that are falsy in `if (this.#service)`.
Falsy == {"null", "undefined", "0", "false"}

NoCall == [op |-> "none", outcome |-> "ok", app |-> "", method |-> "", path |-> <<>>]
Ok(op) == [op |-> op, outcome |-> "ok", app |-> "", method |-> "", path |-> <<>>]
Threw(op, message, a, m, p) ==
    [op |-> op, outcome |-> message, app |-> a, method |-> m, path |-> p]

\* new Route(method, path, handler): the error its constructor throws.
RouteConstructor(method, path, handler) ==
    IF method \notin {"GET", "POST", "PUT", "DELETE", "PATCH", "OPTIONS"}
    THEN "Invalid HTTP method"
    ELSE IF path.type # "string" \/ path.str = <<>> THEN "Invalid path"
    ELSE IF handler # "function" THEN "Invalid handler"
    ELSE "ok"

\* #addRoute: a route of the same method and the same path as written.
existingRoute(a, method, p) ==
    \E i \in 1..Len(routes[a]) :
        routes[a][i].method = method /\ routes[a][i].path = p

\* get, post, put, delete, patch, options (path, handler) on instance a.
AddRoute(a, method, path, handler) ==
    LET e == RouteConstructor(method, path, handler) IN
    /\ IF e # "ok"
       THEN /\ last' = Threw("route", e, a, method, path.str)
            /\ UNCHANGED routes
       ELSE IF existingRoute(a, method, path.str)
       THEN /\ last' = Threw("route", "Route already exists", a, method, path.str)
            /\ UNCHANGED routes
       ELSE /\ routes' = [routes EXCEPT ![a] =
                             Append(@, [method |-> method, path |-> path.str,
                                        handler |-> handler])]
            /\ last' = Ok("route")
    /\ UNCHANGED <<middlewares, mounts, service, table, req, ctxs, parsing, flat, detached>>

\* The elements of paths before the first one that is not a string: forEach
\* pushes them before the callback throws.
RECURSIVE pushedBeforeThrow(_, _)
pushedBeforeThrow(paths, handler) ==
    IF paths = <<>> \/ Head(paths).type # "string" THEN <<>>
    ELSE <<[path |-> Head(paths).str, handler |-> handler]>>
         \o pushedBeforeThrow(Tail(paths), handler)

\* use(paths, handler) on instance a; a single path is the list of it.
Use(a, paths, handler) ==
    /\ middlewares' = [middlewares EXCEPT ![a] =
                          @ \o pushedBeforeThrow(paths, handler)]
    /\ last' = IF \E i \in 1..Len(paths) : paths[i].type # "string"
               THEN Threw("use", "Invalid path", a, "", <<>>)
               ELSE Ok("use")
    /\ UNCHANGED <<routes, mounts, service, table, req, ctxs, parsing, flat, detached>>

\* mount(path, app) on instance a; app is an instance or another value.
Mount(a, path, app) ==
    /\ IF app \notin Apps
       THEN /\ last' = Threw("mount", "The mounted application must be an instance of Rest", a, "", path)
            /\ UNCHANGED mounts
       ELSE /\ mounts' = [mounts EXCEPT ![a] = Append(@, [app |-> app, path |-> path])]
            /\ last' = Ok("mount")
    /\ UNCHANGED <<routes, middlewares, service, table, req, ctxs, parsing, flat, detached>>

\* set service(service) on instance a.
SetService(a, s) ==
    /\ IF service[a] \notin Falsy
       THEN /\ last' = Threw("service", "Service already set", a, "", <<>>)
            /\ UNCHANGED service
       ELSE /\ service' = [service EXCEPT ![a] = s]
            /\ last' = Ok("service")
    /\ UNCHANGED <<routes, middlewares, mounts, table, req, ctxs, parsing, flat, detached>>

\* What a read of the service ends in when it throws.
ServiceNotSet == "Error: Service not set"

\* get service() of instance a.
Rest_service(a) ==
    IF service[a] \in Falsy THEN ServiceNotSet ELSE service[a]

(***************************************************************************)
(* Rest: flattening of the mount tree                                      *)
(***************************************************************************)

\* getRoutes() of instance a: its own routes, then those of its mounts in
\* the order of the mount calls, each under the mount's prefix.
RECURSIVE getRoutes(_)
getRoutes(a) ==
    LET own == [i \in 1..Len(routes[a]) |->
                   [route |-> [app |-> a, idx |-> i],
                    path |-> routePath(<<>>, routes[a][i].path),
                    method |-> routes[a][i].method]]
        mounted == [k \in 1..Len(mounts[a]) |->
                       LET prefix == mountPrefix(mounts[a][k].path)
                           rs == getRoutes(mounts[a][k].app)
                       IN  [j \in 1..Len(rs) |->
                               [route |-> rs[j].route,
                                path |-> routePath(prefix, rs[j].path),
                                method |-> rs[j].method]]]
    IN  own \o Flat(mounted)

\* The getter middlewares of instance a.
RECURSIVE Rest_middlewares(_)
Rest_middlewares(a) ==
    LET currentMiddlewares ==
            [i \in 1..Len(middlewares[a]) |->
                [middleware |-> [app |-> a, idx |-> i],
                 path |-> normalizePath(middlewares[a][i].path),
                 order |-> i - 1]]
        mountedMiddlewares ==
            [k \in 1..Len(mounts[a]) |->
                LET prefix == mountPrefix(mounts[a][k].path)
                    ms == Rest_middlewares(mounts[a][k].app)
                IN  [j \in 1..Len(ms) |->
                        [middleware |-> ms[j].middleware,
                         path |-> normalizePath(prefix \o ms[j].path),
                         order |-> Len(currentMiddlewares) + ms[j].order]]]
    IN  currentMiddlewares \o Flat(mountedMiddlewares)

\* #middlewaresOf(path) of instance a: the flattened middlewares that
\* match, sorted by the comparator.
middlewaresOf(a, path) ==
    sort(SelectSeq(Rest_middlewares(a), LAMBDA m : matches(m.path, path)))

(***************************************************************************)
(* Rest: the dispatch table                                                *)
(***************************************************************************)

\* A loop that wraps next with handlers[1] first and with the last handler
\* last.
wrapFirstInnermost(handlers, i, next) ==
    Reverse(SubSeq(handlers, 1, i)) \o next

\* The loop of the getter routes that wraps next with handlers[i], from the
\* last handler down to the first. A composed next is the sequence of the
\* handlers it calls, each one calling the rest through its next argument.
RECURSIVE wrap(_, _, _)
wrap(handlers, i, next) ==
    IF i < 1 THEN next
    ELSE wrap(handlers, i - 1, <<handlers[i]>> \o next)

\* The composed next of one flattened route r of instance a.
composed(a, r) ==
    LET ms == middlewaresOf(a, r.path)
        handlers == Reverse([i \in 1..Len(ms) |->
                                [kind |-> "middleware",
                                 app |-> ms[i].middleware.app,
                                 idx |-> ms[i].middleware.idx]])
        next == <<[kind |-> "route", app |-> r.route.app, idx |-> r.route.idx]>>
    IN  wrap(handlers, Len(handlers), next)

\* A table build that keeps the first route assigned to a key.
Rest_routesFirst(a) ==
    LET rs == getRoutes(a)
        keys == {<<rs[i].path, rs[i].method>> : i \in 1..Len(rs)}
        firstOf(k) == CHOOSE i \in 1..Len(rs) :
                         /\ <<rs[i].path, rs[i].method>> = k
                         /\ \A j \in 1..Len(rs) :
                               <<rs[j].path, rs[j].method>> = k => i <= j
    IN  [k \in keys |-> [next |-> composed(a, rs[firstOf(k)]), rest |-> a]]

\* The getter routes of instance a: routes[path][method], assigned in the
\* order of getRoutes(), a later assignment replacing an earlier one. Each
\* dispatch function holds its composed next and the instance (this) it
\* gives to the Context.
Rest_routes(a) ==
    LET rs == getRoutes(a)
        keys == {<<rs[i].path, rs[i].method>> : i \in 1..Len(rs)}
        lastOf(k) == CHOOSE i \in 1..Len(rs) :
                        /\ <<rs[i].path, rs[i].method>> = k
                        /\ \A j \in 1..Len(rs) :
                              <<rs[j].path, rs[j].method>> = k => j <= i
    IN  [k \in keys |-> [next |-> composed(a, rs[lastOf(k)]), rest |-> a]]

NoTable == [app |-> "", routes |-> <<>>]

\* A getter routes that keeps the table it has built once.
routesCached(a) ==
    IF table.app = a THEN table.routes ELSE Rest_routes(a)

\* What a read of the getter routes of instance a returns: the table is
\* built anew at every read.
routesRead(a) == Rest_routes(a)

\* A read of the getter routes of instance a, as by the server that is
\* given app.routes.
ReadRoutes(a) ==
    /\ table' = [app |-> a, routes |-> routesRead(a)]
    /\ last' = Ok("routes")
    /\ UNCHANGED <<routes, middlewares, mounts, service, req, ctxs, parsing, flat, detached>>

(***************************************************************************)
(* Context and responses                                                   *)
(***************************************************************************)

\* A Response: its status, the shape of its body, the message its body
\* carries, and the position in the chain of the handler whose call of a
\* builder made it (0: made by the dispatch function or by fetch).
Response(status, shape, message, by) ==
    [status |-> status, shape |-> shape, message |-> message, by |-> by]

\* The #response of a Context no builder has recorded into (undefined).
NoResponse == Response(0, "undefined", "", 0)

Builders == {"json", "text", "redirect", "error", "notFound"}

\* The Response that a builder of Context makes when the handler at
\* position by calls it: json(data), text(body), redirect(url),
\* error("Unauthorized", 401) and notFound().
built(fn, by) ==
    CASE fn = "json" -> Response(200, "data", "", by)
      [] fn = "text" -> Response(200, "text", "", by)
      [] fn = "redirect" -> Response(302, "redirect", "", by)
      [] fn = "error" -> Response(401, "error:{message,status}", "Unauthorized", by)
      [] fn = "notFound" -> Response(404, "text", "Not Found", by)

\* A Context whose builders keep the first recorded response.
recordedOnce(response, fn, by) ==
    IF fn = "notFound" \/ response # NoResponse THEN response ELSE built(fn, by)

\* The #response of the Context after the builder: notFound() does not
\* assign it.
recorded(response, fn, by) ==
    IF fn = "notFound" THEN response ELSE built(fn, by)

(***************************************************************************)
(* The dispatch function of one table entry                                *)
(***************************************************************************)

\* error.message of a thrown value; null and undefined have no properties.
message(error) ==
    CASE error = "Error" -> "boom"
      [] error = "NoResponse" -> "No response set in context"
      [] error = "TypeError" -> "this.#handler is not a function"

NoResult == [kind |-> "none", response |-> NoResponse]
Returned(response) == [kind |-> "response", response |-> response]
Rejected == [kind |-> "rejected", response |-> NoResponse]

\* The catch block of the dispatch function.
catchBlock(response, error) ==
    IF response # NoResponse THEN Returned(response)
    ELSE IF error = "null" THEN Rejected
    ELSE Returned(Response(500, "error,message", message(error), 0))

\* A dispatch function that returns context.response unchecked on normal
\* completion.
settleUnchecked(response, completion) ==
    IF completion = "normal" THEN Returned(response)
    ELSE catchBlock(response, completion)

\* The dispatch function once next(context) has settled: completion is
\* "normal", or the value that next(context) rejected with.
settle(response, completion) ==
    IF completion = "normal"
    THEN IF response # NoResponse THEN Returned(response)
         ELSE catchBlock(response, "NoResponse")
    ELSE catchBlock(response, completion)

Idle ==
    [pc |-> "idle", via |-> "", key |-> <<>>, url |-> <<>>, next |-> <<>>,
     rest |-> "",
     depth |-> 0, mode |-> "", suspended |-> FALSE, thrown |-> "none",
     response |-> NoResponse, returned |-> NoResponse,
     trace |-> <<>>, result |-> NoResult]

Event(ev, at) == [ev |-> ev, at |-> at]

\* A chain in which a middleware that returns without calling next falls
\* through to the handler it wraps.
leaveFallsThrough(r, completion) ==
    IF completion = "normal" /\ r.mode = "run" /\ r.depth < Len(r.next)
    THEN [r EXCEPT !.depth = @ + 1,
                   !.trace = Append(@, Event("pre", r.depth + 1))]
    ELSE IF r.depth = 1
    THEN [r EXCEPT !.pc = "done", !.depth = 0, !.mode = "",
                   !.thrown = IF completion = "normal" THEN "none" ELSE completion,
                   !.result = settle(r.response, completion)]
    ELSE IF completion = "normal"
    THEN [r EXCEPT !.depth = @ - 1, !.mode = "post", !.thrown = "none",
                   !.trace = Append(@, Event("post", r.depth - 1))]
    ELSE [r EXCEPT !.depth = @ - 1, !.mode = "unwinding", !.thrown = completion]

\* The handler at position r.depth completes: its caller resumes after its
\* await of next(context), or the dispatch function settles.
leave(r, completion) ==
    IF r.depth = 1
    THEN [r EXCEPT !.pc = "done", !.depth = 0, !.mode = "",
                   !.thrown = IF completion = "normal" THEN "none" ELSE completion,
                   !.result = settle(r.response, completion)]
    ELSE IF completion = "normal"
    THEN [r EXCEPT !.depth = @ - 1, !.mode = "post", !.thrown = "none",
                   !.trace = Append(@, Event("post", r.depth - 1))]
    ELSE [r EXCEPT !.depth = @ - 1, !.mode = "unwinding", !.thrown = completion]

\* The handler at position k of the composed next is called: Route.handler
\* and Middleware.handler call the registered function, and the call of a
\* value that is no function throws.
enter(r, k) ==
    LET h == r.next[k] IN
    IF \/ h.kind = "middleware" /\ middlewares[h.app][h.idx].handler # "function"
       \/ h.kind = "route" /\ routes[h.app][h.idx].handler # "function"
    THEN leave([r EXCEPT !.depth = k], "TypeError")
    ELSE [r EXCEPT !.depth = k, !.mode = "run",
                   !.trace = Append(@, Event("pre", k))]

\* The host runtime finds the path url of a request to match the route
\* pattern: literally, a :param of the pattern taking one non-empty segment
\* of the path (the host gives the values as request.params).
RECURSIVE hostMatches(_, _)
hostMatches(pattern, url) ==
    IF pattern = <<>> THEN url = <<>>
    ELSE IF Head(pattern) = ":"
    THEN \E k \in 1..Len(url) :
             /\ \A j \in 1..k : url[j] # "/"
             /\ hostMatches(skipWord(Tail(pattern)), SubSeq(url, k + 1, Len(url)))
    ELSE /\ url # <<>>
         /\ Head(url) = Head(pattern)
         /\ hostMatches(Tail(pattern), Tail(url))

\* routes[path][method](request) for a request of the path url that the
\* host runtime has matched to the key k: a new Context, then
\* next(context).
DispatchAt(k, url) ==
    /\ req.pc = "idle"
    /\ k \in DOMAIN table.routes
    /\ hostMatches(k[1], url)
    /\ req' = enter([Idle EXCEPT !.pc = "running", !.via = "routes", !.key = k,
                                 !.url = url,
                                 !.next = table.routes[k].next,
                                 !.rest = table.routes[k].rest], 1)
    /\ UNCHANGED <<routes, middlewares, mounts, service, last, table, ctxs, parsing, flat, detached>>

\* routes[path][method](request) for a request whose path is the key.
Dispatch(k) == DispatchAt(k, k[1])

\* context.service in a handler of request r: the service of the instance
\* that the dispatch function gave to the Context; a throw of its getter
\* passes through.
Context_service(r) == Rest_service(r.rest)

Running ==
    /\ req.pc = "running"
    /\ req.mode \in {"run", "post", "catch"}
    /\ ~req.suspended

\* A composition in which the await of the caller ends as soon as the
\* handler it called suspends.
suspendResumesCaller(r) ==
    IF r.depth > 1
    THEN [r EXCEPT !.depth = @ - 1, !.mode = "post",
                   !.trace = Append(@, Event("post", r.depth - 1))]
    ELSE [r EXCEPT !.suspended = TRUE]

\* The running handler awaits a promise of its own (a parsed body, an
\* external call): it is suspended, and so is every caller that awaits it.
suspend(r) == [r EXCEPT !.suspended = TRUE]

Suspend ==
    /\ Running
    /\ req' = suspend(req)
    /\ UNCHANGED <<routes, middlewares, mounts, service, last, table, ctxs, parsing, flat, detached>>

\* The promise that the suspended handler awaits settles: it runs on.
Resume ==
    /\ req.pc = "running"
    /\ req.suspended
    /\ req' = [req EXCEPT !.suspended = FALSE]
    /\ UNCHANGED <<routes, middlewares, mounts, service, last, table, ctxs, parsing, flat, detached>>

\* The running handler calls a builder of the Context.
CallBuilder(fn) ==
    /\ Running
    /\ req' = [req EXCEPT !.response = recorded(@, fn, req.depth),
                          !.trace = Append(@, Event(fn, req.depth))]
    /\ UNCHANGED <<routes, middlewares, mounts, service, last, table, ctxs, parsing, flat, detached>>

\* A middleware calls next(context) and awaits it.
CallNext ==
    /\ Running
    /\ req.mode = "run"
    /\ req.next[req.depth].kind = "middleware"
    /\ req' = enter([req EXCEPT !.trace = Append(@, Event("next", req.depth))],
                    req.depth + 1)
    /\ UNCHANGED <<routes, middlewares, mounts, service, last, table, ctxs, parsing, flat, detached>>

\* The running handler returns value. Route.handler, Middleware.handler and
\* the composed next pass it on to the caller; returned is the value that
\* next(context) resolves to in the dispatch function, which awaits it and
\* does not use it.
Return(value) ==
    /\ Running
    /\ req' = leave([req EXCEPT !.trace = Append(@, Event("return", req.depth)),
                                !.returned = IF req.depth = 1 THEN value ELSE @],
                    "normal")
    /\ UNCHANGED <<routes, middlewares, mounts, service, last, table, ctxs, parsing, flat, detached>>

\* The running handler throws the value error.
Throw(error) ==
    /\ Running
    /\ req' = leave([req EXCEPT !.trace = Append(@, Event("throw", req.depth))],
                    error)
    /\ UNCHANGED <<routes, middlewares, mounts, service, last, table, ctxs, parsing, flat, detached>>

\* next(context) rejected in a middleware that awaits it outside of any
\* try block: the middleware rejects with the same value.
Propagate ==
    /\ req.pc = "running"
    /\ req.mode = "unwinding"
    /\ req' = leave([req EXCEPT !.trace = Append(@, Event("rethrow", req.depth))],
                    req.thrown)
    /\ UNCHANGED <<routes, middlewares, mounts, service, last, table, ctxs, parsing, flat, detached>>

\* next(context) rejected in a middleware that awaits it in a try block:
\* its catch block runs.
Catch ==
    /\ req.pc = "running"
    /\ req.mode = "unwinding"
    /\ req' = [req EXCEPT !.mode = "catch", !.thrown = "none",
                          !.trace = Append(@, Event("catch", req.depth))]
    /\ UNCHANGED <<routes, middlewares, mounts, service, last, table, ctxs, parsing, flat, detached>>

\* A fetch function that answers with an empty 200 response.
fetchEmpty(a, method, path) == Returned(Response(200, "text", "", 0))

\* What the function that the getter fetch of instance a returns resolves
\* to for a request: the same for every request.
fetch(a, method, path) == Returned(Response(404, "text", "Not found", 0))

\* The function that the getter fetch of instance a returns, applied to a
\* request.
Fetch(a, method, path) ==
    /\ req.pc = "idle"
    /\ req' = [Idle EXCEPT !.pc = "done", !.via = "fetch", !.rest = a,
                           !.key = <<path, method>>, !.url = path,
                           !.result = fetch(a, method, path)]
    /\ UNCHANGED <<routes, middlewares, mounts, service, last, table, ctxs, parsing, flat, detached>>

\* The server sends the response; the Context is dropped.
Respond ==
    /\ req.pc = "done"
    /\ req' = Idle
    /\ UNCHANGED <<routes, middlewares, mounts, service, last, table, ctxs, parsing, flat, detached>>

(***************************************************************************)
(* A middleware that calls next(context) and does not await the promise    *)
(***************************************************************************)

\* The handlers that run inside of a next(context) whose promise the caller
\* did not await: floor is the position of that caller in the chain, run
\* the state of the handlers inside of it, whose positions count from floor.
NoDetached == [floor |-> 0, run |-> Idle]

\* A handler of the detached call is executing: the code of a handler runs
\* without interruption until it awaits or completes.
DetachedRunning ==
    /\ detached.run.pc = "running"
    /\ detached.run.mode \in {"run", "post"}
    /\ ~detached.run.suspended

\* No handler of the dispatch is executing, so the host can run the
\* continuation of a detached handler.
Yielded == req.pc # "running" \/ req.suspended

\* The promise of the detached next(context) settles; no one reads it.
leaveDetached(r, completion) == [leave(r, completion) EXCEPT !.result = NoResult]

\* A middleware calls next(context) and goes on without awaiting it: the
\* handler inside starts at once.
CallNextNoAwait ==
    /\ Running
    /\ req.mode = "run"
    /\ req.next[req.depth].kind = "middleware"
    /\ detached.run.pc = "idle"
    /\ req' = [req EXCEPT !.trace = Append(@, Event("next", req.depth))]
    /\ detached' =
           [floor |-> req.depth,
            run |-> [enter([Idle EXCEPT !.pc = "running", !.via = "next",
                                        !.key = req.key, !.url = req.url,
                                        !.rest = req.rest,
                                        !.next = SubSeq(req.next, req.depth + 1, Len(req.next))],
                           1)
                     EXCEPT !.result = NoResult]]
    /\ UNCHANGED <<routes, middlewares, mounts, service, last, table, ctxs, parsing, flat>>

\* A detached handler calls a builder of the Context, which is the Context
\* that the dispatch function reads.
DetachedCallBuilder(fn) ==
    /\ DetachedRunning
    /\ LET by == detached.floor + detached.run.depth
           response == recorded(IF req.pc = "idle" THEN detached.run.response
                                ELSE req.response, fn, by)
       IN  /\ detached' = [detached EXCEPT
                              !.run.response = response,
                              !.run.trace = Append(@, Event(fn, by))]
           /\ req' = IF req.pc = "idle" THEN req
                     ELSE [req EXCEPT !.response = response]
    /\ UNCHANGED <<routes, middlewares, mounts, service, last, table, ctxs, parsing, flat>>

\* A detached handler awaits a promise of its own: control goes back to the
\* middleware that made the call.
DetachedSuspend ==
    /\ DetachedRunning
    /\ detached' = [detached EXCEPT !.run = suspend(@)]
    /\ UNCHANGED <<routes, middlewares, mounts, service, last, table, req, ctxs, parsing, flat>>

\* The promise that the detached handler awaits settles.
DetachedResume ==
    /\ detached.run.pc = "running"
    /\ detached.run.suspended
    /\ Yielded
    /\ detached' = [detached EXCEPT !.run.suspended = FALSE]
    /\ UNCHANGED <<routes, middlewares, mounts, service, last, table, req, ctxs, parsing, flat>>

\* A detached middleware calls next(context) and awaits it.
DetachedCallNext ==
    /\ DetachedRunning
    /\ detached.run.mode = "run"
    /\ detached.run.next[detached.run.depth].kind = "middleware"
    /\ detached' = [detached EXCEPT !.run =
                       [enter(@, @.depth + 1) EXCEPT !.result = NoResult]]
    /\ UNCHANGED <<routes, middlewares, mounts, service, last, table, req, ctxs, parsing, flat>>

\* A detached handler returns.
DetachedReturn ==
    /\ DetachedRunning
    /\ detached' = [detached EXCEPT !.run = leaveDetached(@, "normal")]
    /\ UNCHANGED <<routes, middlewares, mounts, service, last, table, req, ctxs, parsing, flat>>

\* The promise of the detached call has settled and is collected.
DetachedDiscard ==
    /\ detached.run.pc = "done"
    /\ detached' = NoDetached
    /\ UNCHANGED <<routes, middlewares, mounts, service, last, table, req, ctxs, parsing, flat>>

(***************************************************************************)
(* Requests served concurrently, each through its own Context              *)
(***************************************************************************)

MaxRequests == 2
Requests == 1..MaxRequests

\* The keys and values that handlers put into the #state Map of a Context.
Keys == {"user"}
Values == {"v1", "v2"}
Absent == "absent"

\* The #state and #response of a Context that its constructor has made.
NewContext == [state |-> [key \in Keys |-> Absent], response |-> NoResponse]

\* A request: the position of its dispatch function, the key of the table
\* it was dispatched to, its Context, what its own handlers have done
\* through that Context, and the result of its dispatch function.
NoRequest ==
    [pc |-> "idle", key |-> <<>>, context |-> NewContext, did |-> NewContext,
     result |-> NoResult]

\* A Map that all the Contexts share.
setShared(cs, i, key, value) ==
    [j \in DOMAIN cs |-> [cs[j] EXCEPT !.context.state[key] = value]]

\* context.set(key, value) and context.delete(key) (value Absent) by a
\* handler of request i: the #state Map of the Context of i.
set(cs, i, key, value) ==
    [cs EXCEPT ![i].context.state[key] = value]

\* A #response that all the Contexts share.
assignShared(cs, i, fn) ==
    [j \in DOMAIN cs |->
        [cs[j] EXCEPT !.context.response = recorded(@, fn, 1)]]

\* A builder called by a handler of request i: the #response of the
\* Context of i.
assign(cs, i, fn) ==
    [cs EXCEPT ![i].context.response = recorded(@, fn, 1)]

\* routes[path][method](request) for request i: a new Context.
Begin(i, k) ==
    /\ ctxs[i].pc = "idle"
    /\ k \in DOMAIN table.routes
    /\ ctxs' = [ctxs EXCEPT ![i] = [NoRequest EXCEPT !.pc = "running", !.key = k]]
    /\ UNCHANGED <<routes, middlewares, mounts, service, last, table, req, parsing, flat, detached>>

\* A handler of request i resumes and calls context.set or context.delete.
ContextSet(i, key, value) ==
    /\ ctxs[i].pc = "running"
    /\ ctxs' = [set(ctxs, i, key, value) EXCEPT ![i].did.state[key] = value]
    /\ UNCHANGED <<routes, middlewares, mounts, service, last, table, req, parsing, flat, detached>>

\* A handler of request i resumes and calls a builder.
ContextBuild(i, fn) ==
    /\ ctxs[i].pc = "running"
    /\ ctxs' = [assign(ctxs, i, fn) EXCEPT
                   ![i].did.response = recorded(@, fn, 1)]
    /\ UNCHANGED <<routes, middlewares, mounts, service, last, table, req, parsing, flat, detached>>

\* next(context) of request i settles, normally or with a thrown value, and
\* the dispatch function returns.
Finish(i, completion) ==
    /\ ctxs[i].pc = "running"
    /\ ctxs' = [ctxs EXCEPT ![i].pc = "done",
                            ![i].result = settle(ctxs[i].context.response,
                                                 completion)]
    /\ UNCHANGED <<routes, middlewares, mounts, service, last, table, req, parsing, flat, detached>>

\* The server sends the response of request i; its Context is dropped.
Answer(i) ==
    /\ ctxs[i].pc = "done"
    /\ ctxs' = [ctxs EXCEPT ![i] = NoRequest]
    /\ UNCHANGED <<routes, middlewares, mounts, service, last, table, req, parsing, flat, detached>>

(***************************************************************************)
(* Request: parsing of the body                                            *)
(***************************************************************************)

\* The values of the Content-Type header of the model ("" when absent) and
\* contentType.includes(type) after toLowerCase().
ContentTypes ==
    {"", "application/json", "Application/JSON; charset=utf-8",
     "application/x-www-form-urlencoded", "multipart/form-data; boundary=x",
     "text/plain", "image/png"}

includes(contentType, type) ==
    CASE type = "application/json" ->
             contentType \in {"application/json", "Application/JSON; charset=utf-8"}
      [] type = "application/x-www-form-urlencoded" ->
             contentType = "application/x-www-form-urlencoded"
      [] type = "multipart/form-data" ->
             contentType = "multipart/form-data; boundary=x"
      [] type = "text/plain" -> contentType = "text/plain"

\* A body: whether the raw request fails to decode it, and the entries
\* (key split at ".", value) that it decodes to.
BodyKeys == {<<"a">>, <<"a", "b">>, <<"b">>}
BodyValues == {"1", "2"}
MaxEntries == 2
Bodies ==
    [fails : {TRUE}, entries : {<<>>}] \cup
    [fails : {FALSE},
     entries : UNION {[1..n -> [key : BodyKeys, value : BodyValues]] :
                         n \in 0..MaxEntries}]

\* What a method of Request resolves to, or rejects with.
ResolvedNull == [kind |-> "null", data |-> {}]
Resolved(kind, data) == [kind |-> kind, data |-> data]
RejectedWith(error) == [kind |-> "rejected", data |-> {error}]

\* json(), text() and formData(): the decoded body, or null when the raw
\* request fails to decode it.
Request_json(body) ==
    IF body.fails THEN ResolvedNull ELSE Resolved("json", body.entries)
Request_text(body) ==
    IF body.fails THEN ResolvedNull ELSE Resolved("text", body.entries)
Request_formData(body) ==
    IF body.fails THEN ResolvedNull ELSE Resolved("formData", body.entries)

\* new URLSearchParams(fd).entries(): a host that follows the interface
\* definition converts null to the string "null", which is one key without
\* a value; a host that tests for null first has no entries then.
Hosts == {"converts", "tests"}
URLSearchParams(fd, host) ==
    IF fd # ResolvedNull THEN fd.data
    ELSE IF host = "converts" THEN <<[key |-> <<"null">>, value |-> ""]>>
    ELSE <<>>

\* The loop over the entries that builds the nested object: an object is
\* the set of its leaves (path, value). The assignment of a property on a
\* string value throws in the strict mode of a class body.
IsPrefix(p, q) == Len(p) <= Len(q) /\ \A i \in 1..Len(p) : p[i] = q[i]

RECURSIVE nest(_, _)
nest(obj, entries) ==
    IF entries = <<>> THEN Resolved("object", obj)
    ELSE LET e == Head(entries)
             k == e.key
         IN  IF Len(k) = 2 /\ \E l \in obj : l.path = <<k[1]>> /\ l.value # ""
             THEN RejectedWith("TypeError")
             ELSE nest({l \in obj : ~IsPrefix(k, l.path) /\ ~IsPrefix(l.path, k)}
                          \cup {[path |-> k, value |-> e.value]},
                       Tail(entries))

\* Request.parse(): the call of entries() on the null that formData() has
\* resolved to throws.
parse(contentType, body, host) ==
    IF includes(contentType, "application/json") THEN Request_json(body)
    ELSE IF includes(contentType, "application/x-www-form-urlencoded")
    THEN nest({}, URLSearchParams(Request_text(body), host))
    ELSE IF includes(contentType, "multipart/form-data")
    THEN IF Request_formData(body) = ResolvedNull
         THEN RejectedWith("TypeError")
         ELSE nest({}, Request_formData(body).data)
    ELSE IF includes(contentType, "text/plain") THEN Request_text(body)
    ELSE ResolvedNull

NoParse == [pc |-> "idle", contentType |-> "", body |-> [fails |-> FALSE, entries |-> <<>>],
            result |-> ResolvedNull]

\* A request with a Content-Type header and a body arrives at a handler.
Receive(contentType, body) ==
    /\ parsing.pc = "idle"
    /\ parsing' = [NoParse EXCEPT !.pc = "received", !.contentType = contentType,
                                  !.body = body]
    /\ UNCHANGED <<routes, middlewares, mounts, service, last, table, req, ctxs, flat, detached>>

\* The handler awaits context.request.parse().
Parse ==
    /\ parsing.pc = "received"
    /\ \E host \in Hosts :
           parsing' = [parsing EXCEPT
                          !.pc = "parsed",
                          !.result = parse(parsing.contentType, parsing.body, host)]
    /\ UNCHANGED <<routes, middlewares, mounts, service, last, table, req, ctxs, flat, detached>>

\* The request is answered.
Discard ==
    /\ parsing.pc = "parsed"
    /\ parsing' = NoParse
    /\ UNCHANGED <<routes, middlewares, mounts, service, last, table, req, ctxs, flat, detached>>

(***************************************************************************)
(* Rest: the recursion of getRoutes and of the getter middlewares          *)
(***************************************************************************)

\* The number of nested calls after which the host throws a RangeError
\* ("Maximum call stack size exceeded").
StackLimit == 4

\* The entries that a call on instance a computes before it visits its mounts:
\* this.#routes.map(...) in getRoutes, currentMiddlewares in the getter.
ownEntries(phase, a) ==
    IF phase = "getRoutes"
    THEN [i \in 1..Len(routes[a]) |->
             [route |-> [app |-> a, idx |-> i],
              path |-> routePath(<<>>, routes[a][i].path),
              method |-> routes[a][i].method]]
    ELSE [i \in 1..Len(middlewares[a]) |->
             [middleware |-> [app |-> a, idx |-> i],
              path |-> normalizePath(middlewares[a][i].path),
              order |-> i - 1]]

\* The entries that the call on a mounted instance returned, as the mounting
\* instance a re-paths them for the mount m.
mountedEntries(phase, a, m, rs) ==
    LET prefix == mountPrefix(m.path)
    IN  IF phase = "getRoutes"
        THEN [j \in 1..Len(rs) |->
                 [route |-> rs[j].route,
                  path |-> routePath(prefix, rs[j].path),
                  method |-> rs[j].method]]
        ELSE [j \in 1..Len(rs) |->
                 [middleware |-> rs[j].middleware,
                  path |-> normalizePath(prefix \o rs[j].path),
                  order |-> Len(middlewares[a]) + rs[j].order]]

\* The frame of a call on instance a: the mount it visits next and the
\* entries it has so far.
frame(phase, a) == [app |-> a, k |-> 1, acc |-> ownEntries(phase, a)]

NoFlat == [pc |-> "idle", via |-> "", phase |-> "", app |-> "", stack |-> <<>>,
           result |-> <<>>]

\* A caller invokes getRoutes(), reads middlewares or reads routes on
\* instance a; the getter routes starts with this.getRoutes().
FlatStart(a, via) ==
    /\ flat.pc = "idle"
    /\ LET phase == IF via = "middlewares" THEN "middlewares" ELSE "getRoutes"
       IN  flat' = [pc |-> "running", via |-> via, phase |-> phase, app |-> a,
                    stack |-> <<frame(phase, a)>>, result |-> <<>>]
    /\ UNCHANGED <<routes, middlewares, mounts, service, last, table, req, ctxs, parsing, detached>>

\* The running call reaches its next mount and calls m.app.getRoutes() or
\* reads m.app.middlewares; the host refuses the call when the stack is full
\* and the RangeError leaves every call, none of which catches it.
FlatCall ==
    /\ flat.pc = "running"
    /\ LET top == flat.stack[Len(flat.stack)]
       IN  /\ top.k <= Len(mounts[top.app])
           /\ flat' = IF Len(flat.stack) < StackLimit
                      THEN [flat EXCEPT !.stack =
                                Append(@, frame(flat.phase, mounts[top.app][top.k].app))]
                      ELSE [flat EXCEPT !.pc = "RangeError", !.stack = <<>>]
    /\ UNCHANGED <<routes, middlewares, mounts, service, last, table, req, ctxs, parsing, detached>>

\* The running call has visited all of its mounts and returns its entries
\* to its caller. The getter routes, once getRoutes() has returned a route,
\* goes on to #middlewaresOf, which reads this.middlewares, and then has
\* its table.
FlatReturn ==
    /\ flat.pc = "running"
    /\ LET n == Len(flat.stack)
           top == flat.stack[n]
       IN  /\ top.k > Len(mounts[top.app])
           /\ IF n > 1
              THEN LET caller == flat.stack[n - 1]
                       m == mounts[caller.app][caller.k]
                   IN  /\ flat' = [flat EXCEPT !.stack =
                               Append(SubSeq(@, 1, n - 2),
                                      [caller EXCEPT
                                          !.k = @ + 1,
                                          !.acc = @ \o mountedEntries(flat.phase, caller.app, m, top.acc)])]
                       /\ UNCHANGED <<table, last>>
              ELSE IF flat.via = "routes" /\ flat.phase = "getRoutes" /\ top.acc # <<>>
                   THEN /\ flat' = [flat EXCEPT !.phase = "middlewares",
                                                !.stack = <<frame("middlewares", flat.app)>>]
                        /\ UNCHANGED <<table, last>>
                   ELSE /\ flat' = [flat EXCEPT !.pc = "done", !.stack = <<>>,
                                                !.result = top.acc]
                        /\ IF flat.via = "routes"
                           THEN /\ table' = [app |-> flat.app, routes |-> Rest_routes(flat.app)]
                                /\ last' = Ok("routes")
                           ELSE UNCHANGED <<table, last>>
    /\ UNCHANGED <<routes, middlewares, mounts, service, req, ctxs, parsing, detached>>

\* The caller has its value or its error.
FlatDiscard ==
    /\ flat.pc \in {"done", "RangeError"}
    /\ flat' = NoFlat
    /\ UNCHANGED <<routes, middlewares, mounts, service, last, table, req, ctxs, parsing, detached>>

(***************************************************************************)
(* Specifications                                                          *)
(***************************************************************************)

Init ==
    /\ routes = [a \in Apps |-> <<>>]
    /\ middlewares = [a \in Apps |-> <<>>]
    /\ mounts = [a \in Apps |-> <<>>]
    /\ service = [a \in Apps |-> Null]
    /\ last = NoCall
    /\ table = NoTable
    /\ req = Idle
    /\ ctxs = [i \in Requests |-> NoRequest]
    /\ parsing = NoParse
    /\ flat = NoFlat
    /\ detached = NoDetached

RECURSIVE SumLen(_, _)
SumLen(f, S) ==
    IF S = {} THEN 0
    ELSE LET a == CHOOSE x \in S : TRUE IN Len(f[a]) + SumLen(f, S \ {a})

\* Bounds of Spec: the number of middlewares registered in all instances,
\* and of builder calls in one request.
MaxMiddlewares == 2
MaxBuilderCalls == 2

\* The paths of the model.
P_root == <<"/">>
P_star == <<"*">>
P_api == <<"/", "a", "p", "i">>
P_u1 == <<"/", "u", "/", "1">>
P_param_star == <<"/", ":", "a", "/", "*">>

\* Spec: two instances, B mounted into A; the table of one of them is read
\* once the registrations are made, and requests are served one at a time.
RunApps == {"A", "B"}
RunRoutes == {<<"B", "GET", P_u1>>}
RunPatterns == {P_star, P_param_star}
RunMounts == {<<"A", P_api, "B">>}
RunBuilders == {"error"}
RunThrown == {"Error", "null"}
RunRequests == {P_u1, P_api \o P_u1}

\* The number of builder calls in this request.
BuilderCalls ==
    Cardinality({i \in 1..Len(req.trace) :
                    req.trace[i].ev \in Builders})

Register ==
    /\ table = NoTable
    /\ req.pc = "idle"
    /\ \/ \E r \in RunRoutes :
              AddRoute(r[1], r[2], Str(r[3]), "function")
       \/ \E a \in RunApps, p \in RunPatterns :
              /\ SumLen(middlewares, Apps) < MaxMiddlewares
              /\ Use(a, <<Str(p)>>, "function")
       \/ \E m \in RunMounts :
              /\ mounts[m[1]] = <<>>
              /\ Mount(m[1], m[2], m[3])

Serve ==
    /\ table = NoTable
    /\ req.pc = "idle"
    /\ \E a \in RunApps : ReadRoutes(a)

Handle ==
    \/ \E fn \in RunBuilders : BuilderCalls < MaxBuilderCalls /\ CallBuilder(fn)
    \/ CallNext
    \/ Return(NoResponse)
    \/ \E error \in RunThrown : Throw(error)
    \/ Propagate
    \/ Catch
    \/ Suspend
    \/ Resume

Next ==
    \/ Register
    \/ Serve
    \/ \E k \in DOMAIN table.routes : Dispatch(k)
    \/ \E p \in RunRequests : table # NoTable /\ Fetch(table.app, "GET", p)
    \/ Handle
    \/ Respond

Spec == Init /\ [][Next]_vars

\* SpecChain: the registrations of Spec, and handlers that only call next
\* and return.
ChainHandle ==
    \/ CallNext
    \/ Return(NoResponse)

NextChain ==
    \/ Register
    \/ Serve
    \/ \E k \in DOMAIN table.routes : Dispatch(k)
    \/ ChainHandle
    \/ Respond

SpecChain == Init /\ [][NextChain]_vars

\* The registration calls of SpecReg: routes whose paths differ by a
\* trailing slash or by the method, on three instances, and mounts that
\* nest C in B and B in A.
P_x == <<"/", "x">>
P_xs == <<"/", "x", "/">>
P_v1s == <<"/", "v", "1", "/">>

MaxRoutes == 3
MaxMounts == 2

RegRoutes ==
    {<<"A", "GET", P_x>>, <<"A", "GET", P_xs>>, <<"A", "POST", P_x>>,
     <<"B", "GET", P_x>>, <<"B", "GET", P_root>>, <<"C", "GET", P_x>>}
RegMounts == {<<"A", P_api, "B">>, <<"A", P_root, "C">>, <<"B", P_v1s, "C">>}

RegisterRoute ==
    \E r \in RegRoutes :
        /\ SumLen(routes, Apps) < MaxRoutes
        /\ AddRoute(r[1], r[2], Str(r[3]), "function")

RegisterMount ==
    \E m \in RegMounts :
        /\ SumLen(mounts, Apps) < MaxMounts
        /\ Mount(m[1], m[2], m[3])

NextReg ==
    \/ RegisterRoute
    \/ RegisterMount

SpecReg == Init /\ [][NextReg]_vars

\* The registration calls of SpecMw: middlewares of differing specificity
\* on a parent and on two instances mounted into it at "/".
P_xy == <<"/", "x", "y">>
P_x1 == <<"/", "x", "/", "1">>
P_param == <<"/", ":", "a">>
P_x_star == <<"/", "x", "/", "*">>

MaxUses == 3

MwRoutes == {<<"A", "GET", P_root>>, <<"A", "GET", P_xy>>, <<"B", "GET", P_x1>>}
MwUses ==
    {<<"A", P_root>>, <<"A", P_x>>, <<"A", P_param>>,
     <<"B", P_star>>, <<"B", P_x_star>>, <<"C", P_star>>}
MwMounts == {<<"A", P_root, "B">>, <<"A", P_root, "C">>}

MwRoute ==
    \E r \in MwRoutes : AddRoute(r[1], r[2], Str(r[3]), "function")

MwUse ==
    \E u \in MwUses :
        /\ SumLen(middlewares, Apps) < MaxUses
        /\ Use(u[1], <<Str(u[2])>>, "function")

MwMount ==
    \E m \in MwMounts :
        /\ \A k \in 1..Len(mounts[m[1]]) : mounts[m[1]][k].app # m[3]
        /\ Mount(m[1], m[2], m[3])

NextMw ==
    \/ MwRoute
    \/ MwUse
    \/ MwMount

SpecMw == Init /\ [][NextMw]_vars

\* The registration calls of SpecNorm: one route and one middleware of
\* instance A, at any path of "/" and "x" up to a length.
MaxPathLen == 4

NormPaths == UNION {[1..n -> {"/", "x"}] : n \in 1..MaxPathLen}

NormRoute ==
    \E p \in NormPaths :
        /\ routes["A"] = <<>>
        /\ AddRoute("A", "GET", Str(p), "function")

NormUse ==
    \E p \in NormPaths :
        /\ middlewares["A"] = <<>>
        /\ Use("A", <<Str(p)>>, "function")

NextNorm ==
    \/ NormRoute
    \/ NormUse

SpecNorm == Init /\ [][NextNorm]_vars

\* The registration calls of SpecCfg: calls on instance A with valid and
\* invalid arguments (an empty path, a path and a handler that are
\* undefined, a mounted value that is no instance, services that are
\* objects or the number 0).
CfgPaths == {Str(P_x), Str(P_xs), Str(<<>>), Undefined}
CfgHandlers == {"function", "undefined"}
CfgUsePaths == {<<Str(P_star)>>, <<Str(P_x), Undefined>>}
CfgMounted == {"B", "notRest"}
CfgServices == {"svc1", "svc2", "0"}

CfgRoute ==
    \E p \in CfgPaths, h \in CfgHandlers : AddRoute("A", "GET", p, h)

CfgUse ==
    \E ps \in CfgUsePaths, h \in CfgHandlers :
        /\ SumLen(middlewares, Apps) < MaxUses
        /\ Use("A", ps, h)

CfgMount ==
    \E b \in CfgMounted :
        /\ mounts["A"] = <<>>
        /\ Mount("A", P_api, b)

CfgService ==
    \E s \in CfgServices : SetService("A", s)

NextCfg ==
    \/ CfgRoute
    \/ CfgUse
    \/ CfgMount
    \/ CfgService

SpecCfg == Init /\ [][NextCfg]_vars

\* SpecConc: two routes of instance A, and requests dispatched to them
\* whose handlers interleave at every call they make.
ConcRoutes == {P_x, P_xy}
ConcBuilders == {"json", "error"}
ConcCompletions == {"normal", "Error"}

ConcRegister ==
    /\ table = NoTable
    /\ \E p \in ConcRoutes : AddRoute("A", "GET", Str(p), "function")

ConcServe ==
    /\ table = NoTable
    /\ ReadRoutes("A")

ConcHandle ==
    \E i \in Requests :
        \/ \E key \in Keys, value \in Values \cup {Absent} : ContextSet(i, key, value)
        \/ \E fn \in ConcBuilders : ContextBuild(i, fn)

NextConc ==
    \/ ConcRegister
    \/ ConcServe
    \/ \E i \in Requests : \E k \in DOMAIN table.routes : Begin(i, k)
    \/ ConcHandle
    \/ \E i \in Requests : \E c \in ConcCompletions : Finish(i, c)
    \/ \E i \in Requests : Answer(i)

SpecConc == Init /\ [][NextConc]_vars

\* SpecStar: one route of instance A at any path of "/" and "x", and one
\* middleware of A at any pattern of "/", "x" and one "*", up to a length.
StarPatterns ==
    {p \in UNION {[1..n -> {"/", "x", "*"}] : n \in 1..MaxPathLen} :
        Cardinality({i \in 1..Len(p) : p[i] = "*"}) = 1}

StarUse ==
    \E p \in StarPatterns :
        /\ middlewares["A"] = <<>>
        /\ Use("A", <<Str(p)>>, "function")

NextStar ==
    \/ NormRoute
    \/ StarUse

SpecStar == Init /\ [][NextStar]_vars

\* SpecParam: instance A with a parameterized route, middlewares at a
\* literal path that the route matches, at the pattern of the route and at
\* `*`, and requests of two concrete paths that the route serves.
P_u_param == <<"/", "u", "/", ":", "a">>
P_u7 == <<"/", "u", "/", "7">>

ParamPatterns == {P_u1, P_u_param, P_star}
ParamUrls == {P_u1, P_u7}

ParamRegister ==
    /\ table = NoTable
    /\ \/ AddRoute("A", "GET", Str(P_u_param), "function")
       \/ \E p \in ParamPatterns :
              /\ SumLen(middlewares, Apps) < MaxMiddlewares
              /\ Use("A", <<Str(p)>>, "function")

ParamServe ==
    /\ table = NoTable
    /\ ReadRoutes("A")

NextParam ==
    \/ ParamRegister
    \/ ParamServe
    \/ \E k \in DOMAIN table.routes : \E url \in ParamUrls : DispatchAt(k, url)
    \/ ChainHandle
    \/ Respond

SpecParam == Init /\ [][NextParam]_vars

\* SpecLazy: routes, middlewares and mounts are registered on the instances
\* of a mount tree in any order, C in B and B in A also after routes of the
\* mounted instance exist, and the table of any instance is read at any
\* time, also again after further registrations.
LazyRoutes == {<<"A", "GET", P_x>>, <<"B", "GET", P_x>>, <<"C", "GET", P_x>>}
LazyUses == {<<"A", P_star>>, <<"B", P_star>>}
LazyMounts == {<<"A", P_api, "B">>, <<"B", P_v1s, "C">>}

LazyRegister ==
    \/ \E r \in LazyRoutes :
           /\ SumLen(routes, Apps) < MaxRoutes
           /\ AddRoute(r[1], r[2], Str(r[3]), "function")
    \/ \E u \in LazyUses :
           /\ middlewares[u[1]] = <<>>
           /\ Use(u[1], <<Str(u[2])>>, "function")
    \/ \E m \in LazyMounts :
           /\ mounts[m[1]] = <<>>
           /\ Mount(m[1], m[2], m[3])

LazyRead == \E a \in Apps : ReadRoutes(a)

NextLazy ==
    \/ LazyRegister
    \/ LazyRead

SpecLazy == Init /\ [][NextLazy]_vars

\* SpecParse: requests of every content type and body of the model are
\* parsed.
NextParse ==
    \/ \E contentType \in ContentTypes, body \in Bodies : Receive(contentType, body)
    \/ Parse
    \/ Discard

SpecParse == Init /\ [][NextParse]_vars

\* SpecConfine: B is mounted into A at "/x"; A has a route outside of that
\* prefix whose path starts with the same characters, B has routes, and B
\* registers middlewares.
P_y == <<"/", "y">>

ConfineRoutes == {<<"A", "GET", P_xy>>, <<"B", "GET", P_y>>, <<"B", "GET", P_root>>}
ConfineUses == {<<"B", P_star>>, <<"B", P_root>>, <<"B", P_y>>}
ConfineMounts == {<<"A", P_x, "B">>}

ConfineRoute ==
    \E r \in ConfineRoutes : AddRoute(r[1], r[2], Str(r[3]), "function")

ConfineUse ==
    \E u \in ConfineUses :
        /\ SumLen(middlewares, Apps) < MaxUses
        /\ Use(u[1], <<Str(u[2])>>, "function")

ConfineMount ==
    \E m \in ConfineMounts :
        /\ mounts[m[1]] = <<>>
        /\ Mount(m[1], m[2], m[3])

NextConfine ==
    \/ ConfineRoute
    \/ ConfineUse
    \/ ConfineMount

SpecConfine == Init /\ [][NextConfine]_vars

\* SpecFlat: A and B mount each other and themselves, B twice under two
\* prefixes; between the registrations a caller flattens A or B.
FlatRoutes == {<<"A", "GET", P_x>>, <<"B", "GET", P_y>>}
FlatUses == {<<"B", P_star>>}
FlatMounts == {<<"A", P_x, "B">>, <<"A", P_y, "B">>, <<"B", P_x, "A">>, <<"A", P_x, "A">>}
FlatApps == {"A", "B"}
FlatVias == {"getRoutes", "middlewares", "routes"}

FlatRegister ==
    /\ flat.pc = "idle"
    /\ \/ \E r \in FlatRoutes : AddRoute(r[1], r[2], Str(r[3]), "function")
       \/ \E u \in FlatUses :
              /\ middlewares[u[1]] = <<>>
              /\ Use(u[1], <<Str(u[2])>>, "function")
       \/ \E m \in FlatMounts :
              /\ SumLen(mounts, Apps) < MaxMounts
              /\ Mount(m[1], m[2], m[3])

NextFlat ==
    \/ FlatRegister
    \/ \E a \in FlatApps, via \in FlatVias : FlatStart(a, via)
    \/ FlatCall
    \/ FlatReturn
    \/ FlatDiscard

SpecFlat == Init /\ [][NextFlat]_vars

\* SpecDetach: one route of A inside of up to two middlewares; a middleware
\* may call next(context) without awaiting it.
DetachBuilders == {"json"}

\* The number of builder calls of the detached handlers.
DetachedBuilderCalls ==
    Cardinality({i \in 1..Len(detached.run.trace) :
                    detached.run.trace[i].ev \in Builders})

\* The running middleware has called next(context) before.
CalledNext == \E i \in 1..Len(req.trace) : req.trace[i] = Event("next", req.depth)

DetachRegister ==
    /\ table = NoTable
    /\ \/ AddRoute("A", "GET", Str(P_x), "function")
       \/ /\ Len(middlewares["A"]) < MaxMiddlewares
          /\ Use("A", <<Str(P_star)>>, "function")

DetachServe ==
    /\ table = NoTable
    /\ ReadRoutes("A")

DetachDispatch ==
    /\ detached.run.pc = "idle"
    /\ \E k \in DOMAIN table.routes : Dispatch(k)

DetachHandle ==
    /\ ~DetachedRunning
    /\ \/ \E fn \in DetachBuilders : BuilderCalls < MaxBuilderCalls /\ CallBuilder(fn)
       \/ ~CalledNext /\ CallNext
       \/ ~CalledNext /\ CallNextNoAwait
       \/ Return(NoResponse)
       \/ Suspend
       \/ Resume

DetachedHandle ==
    \/ \E fn \in DetachBuilders :
           DetachedBuilderCalls < MaxBuilderCalls /\ DetachedCallBuilder(fn)
    \/ DetachedCallNext
    \/ DetachedReturn
    \/ DetachedSuspend
    \/ DetachedResume
    \/ DetachedDiscard

NextDetach ==
    \/ DetachRegister
    \/ DetachServe
    \/ DetachDispatch
    \/ DetachHandle
    \/ DetachedHandle
    \/ Respond

SpecDetach == Init /\ [][NextDetach]_vars

\* SpecTie: a route of B, B mounted into A at "/api" or at "/", and
\* middlewares of A and of B whose flattened patterns are the same; the
\* handlers only call next and return.
TieRoutes == {<<"B", "GET", P_x>>}
TieUses == {<<"A", P_api \o P_x>>, <<"A", P_x>>, <<"B", P_x>>}
TieMounts == {<<"A", P_api, "B">>, <<"A", P_root, "B">>}

TieRegister ==
    /\ table = NoTable
    /\ \/ \E r \in TieRoutes : AddRoute(r[1], r[2], Str(r[3]), "function")
       \/ \E u \in TieUses :
              /\ SumLen(middlewares, Apps) < MaxMiddlewares
              /\ Use(u[1], <<Str(u[2])>>, "function")
       \/ \E m \in TieMounts :
              /\ mounts[m[1]] = <<>>
              /\ Mount(m[1], m[2], m[3])

NextTie ==
    \/ TieRegister
    \/ Serve
    \/ \E k \in DOMAIN table.routes : Dispatch(k)
    \/ ChainHandle
    \/ Respond

SpecTie == Init /\ [][NextTie]_vars

\* SpecCtx: one instance with one route and at most one middleware; the
\* handlers call the builders of the Context, notFound() among them, up to
\* MaxBuilderCalls + 1 times in a request, and return nothing or a Response
\* that a builder gave them.
CtxBuilders == {"json", "error", "notFound"}
CtxReturned ==
    {NoResponse} \cup
    {built(req.trace[j].ev, req.trace[j].at) :
        j \in {i \in 1..Len(req.trace) : req.trace[i].ev \in Builders}}

CtxRegister ==
    /\ table = NoTable
    /\ \/ AddRoute("A", "GET", Str(P_x), "function")
       \/ /\ middlewares["A"] = <<>>
          /\ Use("A", <<Str(P_star)>>, "function")

CtxServe ==
    /\ table = NoTable
    /\ ReadRoutes("A")

CtxHandle ==
    \/ \E fn \in CtxBuilders : BuilderCalls <= MaxBuilderCalls /\ CallBuilder(fn)
    \/ CallNext
    \/ \E value \in CtxReturned : Return(value)
    \/ Throw("Error")
    \/ Propagate
    \/ Catch
    \/ Suspend
    \/ Resume

NextCtx ==
    \/ CtxRegister
    \/ CtxServe
    \/ \E k \in DOMAIN table.routes : Dispatch(k)
    \/ CtxHandle
    \/ Respond

SpecCtx == Init /\ [][NextCtx]_vars

\* SpecSvc: B with a route, mounted into A; each instance is given a
\* service or none, and the route is served from the table of A or of B.
SvcServices == {"svc1", "svc2"}

SvcRegister ==
    /\ table = NoTable
    /\ \/ \E r \in RunRoutes : AddRoute(r[1], r[2], Str(r[3]), "function")
       \/ \E m \in RunMounts : mounts[m[1]] = <<>> /\ Mount(m[1], m[2], m[3])

SvcService ==
    \E a \in RunApps, s \in SvcServices : SetService(a, s)

SvcServe ==
    /\ table = NoTable
    /\ \E a \in RunApps : ReadRoutes(a)

SvcHandle ==
    \/ BuilderCalls = 0 /\ CallBuilder("json")
    \/ Return(NoResponse)
    \/ Throw("Error")

NextSvc ==
    \/ SvcRegister
    \/ SvcService
    \/ SvcServe
    \/ \E k \in DOMAIN table.routes : Dispatch(k)
    \/ SvcHandle
    \/ Respond

SpecSvc == Init /\ [][NextSvc]_vars

(***************************************************************************)
(* Properties of one dispatch                                              *)
(***************************************************************************)

RecordingBuilders == {"json", "text", "redirect", "error"}

\* The position of the terminal route handler in the chain of the request.
Terminal == Len(req.next)

\* The pattern with which the middleware at position k was registered.
registered(k) == middlewares[req.next[k].app][req.next[k].idx].path

\* The event at index j of the trace is one of evs at position k.
At(evs, k, j) == req.trace[j].at = k /\ req.trace[j].ev \in evs

\* One of evs at position k is in the trace before index j.
Earlier(evs, k, j) == \E i \in 1..(j - 1) : At(evs, k, i)

\* C1: in every dispatch through the table, for a middleware registered at
\* the literal pattern * (position s) and a more specific middleware
\* (position p) of the same chain: the code of p before next runs only
\* after the code of s before next, the route handler runs only after both,
\* and once the code of s after next has begun no code of p runs any more.
C1_OnionOrder ==
    req.via = "routes" =>
        \A s, p \in 1..(Terminal - 1) :
            (registered(s) = P_star /\ registered(p) # P_star) =>
                \A j \in 1..Len(req.trace) :
                    /\ At({"pre"}, p, j) => Earlier({"pre"}, s, j)
                    /\ At({"pre"}, Terminal, j) =>
                           Earlier({"pre"}, s, j) /\ Earlier({"pre"}, p, j)
                    /\ At({"post", "catch"}, s, j) =>
                           \A i \in 1..Len(req.trace) :
                               req.trace[i].at = p => i < j

\* C2: every dispatch through the table resolves to a response with a
\* numeric status, whatever the handlers of the chain return, record or
\* throw; it never rejects.
C2_GuaranteedResponse ==
    (req.pc = "done" /\ req.via = "routes") =>
        /\ req.result.kind = "response"
        /\ req.result.response.status \in 100..599

\* C3: fetch of a request whose method and path are those of a route of the
\* table runs the composed chain of that route and returns the response the
\* chain recorded.
C3_FetchRunsChain ==
    (/\ req.pc = "done"
     /\ req.via = "fetch"
     /\ req.key \in DOMAIN Rest_routes(req.rest)) =>
        /\ req.next = Rest_routes(req.rest)[req.key].next
        /\ req.trace # <<>>
        /\ req.response # NoResponse => req.result = Returned(req.response)

\* C4: when a thrown value reaches the dispatch function, the result is the
\* recorded response of the Context if there is one, and otherwise a
\* response of status 500 that carries the message of the thrown value.
C4_ThrowAtBoundary ==
    (req.pc = "done" /\ req.via = "routes" /\ req.thrown # "none") =>
        IF req.response # NoResponse
        THEN req.result = Returned(req.response)
        ELSE /\ req.result.kind = "response"
             /\ req.result.response.status = 500
             /\ req.result.response.message = message(req.thrown)

\* No handler of the request has called a builder that records a response.
NothingRecorded ==
    \A i \in 1..Len(req.trace) : req.trace[i].ev \notin RecordingBuilders

ShortCircuited(k) ==
    /\ k \in 1..(Terminal - 1)
    /\ \E j \in 1..Len(req.trace) :
           At({"return"}, k, j) /\ Earlier(RecordingBuilders, k, j)
    /\ \A j \in 1..Len(req.trace) : ~At({"next"}, k, j)

\* The index in the trace of the last call of a recording builder among the
\* indices S.
lastRecording(S) ==
    CHOOSE j \in S :
        /\ req.trace[j].ev \in RecordingBuilders
        /\ \A i \in S : req.trace[i].ev \in RecordingBuilders => i <= j

\* The response that the middleware at position k recorded last.
recordedBy(k) ==
    LET j == lastRecording({i \in 1..Len(req.trace) : req.trace[i].at = k})
    IN  built(req.trace[j].ev, k)

\* C6 as stated: when a middleware short-circuits, no handler inside it
\* runs, and the dispatch function returns the response that this
\* middleware recorded.
C6_ShortCircuit ==
    req.via = "routes" =>
        \A k \in 1..(Terminal - 1) :
            ShortCircuited(k) =>
                /\ \A i \in 1..Len(req.trace) : req.trace[i].at <= k
                /\ req.pc = "done" => req.result = Returned(recordedBy(k))

\* C6 amended: when a middleware short-circuits, no handler inside it runs,
\* and the dispatch function returns the response recorded last in the
\* request: the one of this middleware, unless an enclosing middleware
\* records another one after its next has returned.
C6_ShortCircuitLastRecorded ==
    req.via = "routes" =>
        \A k \in 1..(Terminal - 1) :
            ShortCircuited(k) =>
                /\ \A i \in 1..Len(req.trace) : req.trace[i].at <= k
                /\ req.pc = "done" =>
                       LET ret == CHOOSE j \in 1..Len(req.trace) : At({"return"}, k, j)
                           later == {i \in (ret + 1)..Len(req.trace) :
                                        req.trace[i].ev \in RecordingBuilders}
                       IN  IF later = {}
                           THEN req.result = Returned(recordedBy(k))
                           ELSE /\ \A i \in later : req.trace[i].at < k
                                /\ req.result =
                                       Returned(built(req.trace[lastRecording(later)].ev,
                                                      req.trace[lastRecording(later)].at))

\* A middleware of the served instance short-circuits in front of the
\* route handler of a mounted instance, and its response is the answer.
C6_Witness ==
    /\ req.pc = "done"
    /\ req.via = "routes"
    /\ \E k \in 1..(Terminal - 1) :
           /\ ShortCircuited(k)
           /\ req.next[k].app = table.app
           /\ req.next[Terminal].app # table.app
           /\ req.result = Returned(recordedBy(k))

C21_UnmatchedNotFound ==
    (req.pc # "idle" /\ req.key \notin DOMAIN table.routes) =>
        /\ req.via = "fetch"
        /\ req.pc = "done"
        /\ req.trace = <<>>
        /\ req.result = Returned(Response(404, "text", "Not found", 0))

\* The table of A is served, a middleware is registered at `*`, and a
\* request for a path that is a key only in the table of B has been
\* answered.
C21_Witness ==
    /\ table.app = "A"
    /\ <<P_api \o P_u1, "GET">> \in DOMAIN table.routes
    /\ \E i \in 1..Len(middlewares["A"]) : middlewares["A"][i].path = P_star
    /\ req.pc = "done"
    /\ req.key = <<P_u1, "GET">>
    /\ req.result.response.status = 404

\* The middlewares that apply to the route of the request, in the order of
\* the resolver (most specific first), and the events of the handlers that
\* have started to run, in the order in which they started.
Applicable == middlewaresOf(table.app, req.key[1])
Started == SelectSeq(req.trace, LAMBDA e : e.ev = "pre")
handlerOf(m) ==
    [kind |-> "middleware", app |-> m.middleware.app, idx |-> m.middleware.idx]

\* C22 as stated: the applicable middlewares start to run in the order of
\* the resolver, the most specific one first, and the route handler after
\* the last of them.
C22_MostSpecificFirst ==
    req.via = "routes" =>
        LET ms == Applicable
            started == Started
        IN  \A i \in 1..Len(started) :
                LET h == req.next[started[i].at] IN
                IF i <= Len(ms)
                THEN h = handlerOf(ms[i])
                ELSE h.kind = "route" /\ i = Len(ms) + 1

\* C22 amended: the applicable middlewares start to run in the reverse of
\* the order of the resolver, the least specific one first, each next
\* starting the next more specific one, and the next of the most specific
\* one starts the route handler.
C22_LeastSpecificFirst ==
    req.via = "routes" =>
        LET ms == Applicable
            started == Started
        IN  \A i \in 1..Len(started) :
                LET h == req.next[started[i].at] IN
                IF i <= Len(ms)
                THEN h = handlerOf(ms[Len(ms) + 1 - i])
                ELSE h.kind = "route" /\ i = Len(ms) + 1

\* Two middlewares apply to the route and both have run before the route
\* handler, which has returned.
C22_Witness ==
    /\ req.via = "routes"
    /\ req.pc = "done"
    /\ Len(Applicable) = 2
    /\ Applicable[1].path # Applicable[2].path
    /\ Len(Started) = 3
    /\ \E j \in 1..Len(req.trace) : At({"return"}, 3, j)

(***************************************************************************)
(* Properties of registration and flattening                               *)
(***************************************************************************)

\* The normalization that the claims speak of: every run of "/" collapses
\* to one "/", a trailing "/" is stripped, and the root stays "/".
RECURSIVE collapseSlashes(_)
collapseSlashes(s) ==
    IF Len(s) < 2 THEN s
    ELSE IF s[1] = "/" /\ s[2] = "/" THEN collapseSlashes(Tail(s))
    ELSE <<s[1]>> \o collapseSlashes(Tail(s))

Normalize(p) ==
    LET s == stripTrailingSlash(collapseSlashes(p))
    IN  IF s = <<>> THEN <<"/">> ELSE s

\* Instance a holds a route of this method whose normalized path is that
\* of p, at an index other than i.
HoldsNormalized(a, method, p, i) ==
    \E j \in 1..Len(routes[a]) :
        /\ j # i
        /\ routes[a][j].method = method
        /\ Normalize(routes[a][j].path) = Normalize(p)

\* C7: duplicate detection is keyed by (method, normalized path) and local
\* to one instance: no instance ever holds two routes of the same method
\* and the same normalized path, and a registration fails as a duplicate
\* only when its own instance holds such a route.
C7_DuplicateDetection ==
    /\ \A a \in Apps : \A i \in 1..Len(routes[a]) :
           ~HoldsNormalized(a, routes[a][i].method, routes[a][i].path, i)
    /\ last.outcome = "Route already exists" =>
           HoldsNormalized(last.app, last.method, last.path, 0)

\* The entries of a sequence, as a set.
Range(s) == {s[i] : i \in 1..Len(s)}

\* C8: for every mount of an instance b into a at a prefix q other than
\* "/", every flattened route (m, p) of b is a flattened route of a under
\* the path normalize(q + p) and a key of the dispatch table of a; and a
\* route of another instance is among the flattened routes of a only under
\* the prefix of a mount that contributes it.
C8_MountPrefixing ==
    \A a \in Apps :
        /\ \A k \in 1..Len(mounts[a]) :
               mounts[a][k].path # P_root =>
                   \A e \in Range(getRoutes(mounts[a][k].app)) :
                       LET path == Normalize(mounts[a][k].path \o e.path) IN
                       /\ [route |-> e.route, path |-> path, method |-> e.method]
                              \in Range(getRoutes(a))
                       /\ <<path, e.method>> \in DOMAIN Rest_routes(a)
        /\ \A f \in Range(getRoutes(a)) :
               f.route.app # a =>
                   \E k \in 1..Len(mounts[a]) :
                       \E e \in Range(getRoutes(mounts[a][k].app)) :
                           /\ e.route = f.route
                           /\ e.method = f.method
                           /\ mounts[a][k].path # P_root =>
                                  f.path = Normalize(mounts[a][k].path \o e.path)

\* B holds GET /x and is mounted into A at /api, C is nested in B: A lists
\* GET /api/x and the route of C under both prefixes, and no /x of its own.
C8_Witness ==
    /\ routes["A"] = <<>>
    /\ mounts["A"] = <<[app |-> "B", path |-> P_api]>>
    /\ mounts["B"] = <<[app |-> "C", path |-> P_v1s]>>
    /\ \E f \in Range(getRoutes("A")) :
           f.route.app = "B" /\ f.method = "GET" /\ f.path = P_api \o P_x
    /\ \E f \in Range(getRoutes("A")) :
           f.route.app = "C" /\ f.path = P_api \o <<"/", "v", "1">> \o P_x
    /\ \A f \in Range(getRoutes("A")) : f.path # P_x
    /\ <<P_api \o P_x, "GET">> \in DOMAIN Rest_routes("A")

(***************************************************************************)
(* Properties of the middleware resolver                                   *)
(***************************************************************************)

\* The "/"-separated segments of a path.
RECURSIVE Split(_)
Split(s) ==
    IF s = <<>> THEN << <<>> >>
    ELSE IF Head(s) = "/" THEN << <<>> >> \o Split(Tail(s))
    ELSE LET rest == Split(Tail(s))
         IN  << <<Head(s)>> \o Head(rest) >> \o Tail(rest)

IsParam(seg) == Len(seg) >= 2 /\ seg[1] = ":"

\* The six criteria of specificity, as a key whose lexicographic order is
\* most-specific-first.
SpecificityKey(m) ==
    << IF m.path = P_star THEN 1 ELSE 0,
       Cardinality({i \in 1..Len(m.path) : m.path[i] = "*"}),
       Cardinality({i \in 1..Len(Split(m.path)) : IsParam(Split(m.path)[i])}),
       0 - Len(Split(m.path)),
       0 - Len(m.path),
       m.order >>

\* The first criterion on which a and b differ puts a before b.
SortsBefore(a, b) ==
    \E i \in 1..6 :
        /\ SpecificityKey(a)[i] < SpecificityKey(b)[i]
        /\ \A j \in 1..(i - 1) : SpecificityKey(a)[j] = SpecificityKey(b)[j]

\* C9: for every flattened route of every instance, the order that
\* #middlewaresOf computes is the order of the six criteria: no middleware
\* of the result comes after one that the criteria put after it.
C9_SixCriteriaOrder ==
    \A a \in Apps : \A r \in Range(getRoutes(a)) :
        LET ms == middlewaresOf(a, r.path) IN
        \A i, j \in 1..Len(ms) : i < j => ~SortsBefore(ms[j], ms[i])

\* The pattern P applies to the path by prefix or exactly: each segment of
\* P is matched by the segment of the path at its place, a :param segment
\* by any non-empty segment, and the path ends there or goes on after a "/".
PrefixOrExact(P, path) ==
    LET ps == Split(P)
        qs == Split(path)
    IN  /\ Len(ps) <= Len(qs)
        /\ \A i \in 1..Len(ps) :
               IF IsParam(ps[i]) THEN qs[i] # <<>> ELSE ps[i] = qs[i]

\* C10: a flattened middleware whose pattern has no "*" applies to a
\* flattened route exactly when the pattern matches the path by prefix or
\* exactly, and a middleware registered at "/" is in the chain of the route
\* that the same instance registered at "/".
C10_PrefixOrExact ==
    \A a \in Apps :
        /\ \A r \in Range(getRoutes(a)) : \A m \in Range(Rest_middlewares(a)) :
               (\A i \in 1..Len(m.path) : m.path[i] # "*") =>
                   (m \in Range(middlewaresOf(a, r.path))
                        <=> PrefixOrExact(m.path, r.path))
        /\ \A i \in 1..Len(routes[a]) : \A j \in 1..Len(middlewares[a]) :
               (routes[a][i].path = P_root /\ middlewares[a][j].path = P_root) =>
                   [kind |-> "middleware", app |-> a, idx |-> j]
                       \in Range(composed(a, getRoutes(a)[i]))

(***************************************************************************)
(* Properties of path normalization                                        *)
(***************************************************************************)

\* C11: the normalization of getRoutes and the normalization of the getter
\* middlewares are idempotent on every registered path: normalizing the
\* normalized path again leaves it as it is.
C11_NormalizeIdempotent ==
    \A a \in Apps :
        /\ \A i \in 1..Len(routes[a]) :
               routePath(<<>>, routePath(<<>>, routes[a][i].path))
                   = routePath(<<>>, routes[a][i].path)
        /\ \A j \in 1..Len(middlewares[a]) :
               normalizePath(normalizePath(middlewares[a][j].path))
                   = normalizePath(middlewares[a][j].path)

\* C12: a route registered at "/" is listed by getRoutes and keyed in the
\* dispatch table under "/", no flattened route has the empty path, and the
\* normalization of the routes gives what the normalization of the
\* middlewares gives.
C12_RootKept ==
    \A a \in Apps :
        /\ \A i \in 1..Len(routes[a]) :
               /\ routes[a][i].path = P_root =>
                      /\ getRoutes(a)[i].path = P_root
                      /\ <<P_root, routes[a][i].method>> \in DOMAIN Rest_routes(a)
               /\ routePath(<<>>, routes[a][i].path)
                      = normalizePath(routes[a][i].path)
        /\ \A f \in Range(getRoutes(a)) : f.path # <<>>

(***************************************************************************)
(* Properties of configuration errors and of the service                   *)
(***************************************************************************)

\* The configuration errors of routes, mounts and the service.
ConfigErrors ==
    {"Route already exists", "Invalid HTTP method", "Invalid path",
     "Invalid handler", "The mounted application must be an instance of Rest",
     "Service already set"}

\* A registration call that ends in a configuration error of a route, a
\* mount or the service leaves the four tables as they were.
ErrorLeavesTables ==
    (last'.op \in {"route", "mount", "service"} /\ last'.outcome \in ConfigErrors)
        => UNCHANGED <<routes, middlewares, mounts, service>>

\* No table holds what a configuration error should have refused: two
\* routes of one method and one normalized path, a route without a path or
\* without an invocable handler, a mounted value that is no instance.
NothingInvalidStored ==
    \A a \in Apps :
        /\ \A i \in 1..Len(routes[a]) :
               /\ ~HoldsNormalized(a, routes[a][i].method, routes[a][i].path, i)
               /\ routes[a][i].path # <<>>
               /\ routes[a][i].handler = "function"
        /\ \A k \in 1..Len(mounts[a]) : mounts[a][k].app \in Apps

\* A set of the service of an instance whose service a set has stored ends
\* in the error "Service already set".
ResetIsRefused ==
    \A a \in Apps : \A s \in CfgServices :
        (service[a] # Null /\ SetService(a, s)) =>
            last'.outcome = "Service already set"

\* C13: every configuration error of a route, a mount or the service is
\* raised by the registration call itself, which leaves the route table,
\* the middleware table, the mount list and the service as they were; and
\* none is left for request time, so no table ever holds what such an
\* error refuses.
C13_ConfigErrorsSynchronous ==
    /\ [][ErrorLeavesTables]_vars
    /\ []NothingInvalidStored
    /\ [][ResetIsRefused]_vars

\* C18: once a set of the service of an instance has succeeded, no later
\* set changes the stored service, whatever value the first set stored, and
\* every read of the service returns that value.
C18_ServiceSetOnce ==
    /\ [][\A a \in Apps : service[a] # Null => service'[a] = service[a]]_vars
    /\ [](\A a \in Apps : service[a] # Null => Rest_service(a) = service[a])

\* The instance on which the route that the request is served by was
\* registered.
Owner == req.next[Terminal].app

\* C19: in a handler of a route, context.service is the service of the
\* instance on which the route was registered, also when the request
\* reaches the route through a parent into which that instance is mounted.
C19_ServiceOfOwner ==
    (req.pc = "running" /\ req.via = "routes" /\ service[Owner] \notin Falsy) =>
        Context_service(req) = service[Owner]

(***************************************************************************)
(* Properties of concurrent requests                                       *)
(***************************************************************************)

\* C14: at every point of every interleaving, what the Context of a
\* request holds (its store and its recorded response) is exactly what the
\* handlers of that request have put there, and a request is answered with
\* the response recorded in its own Context when there is one.
C14_ContextIsolation ==
    \A i \in Requests :
        /\ ctxs[i].context = ctxs[i].did
        /\ (ctxs[i].pc = "done" /\ ctxs[i].did.response # NoResponse) =>
               ctxs[i].result = Returned(ctxs[i].did.response)

\* Two requests to the same route are in flight, both have set the same
\* key to different values and recorded different responses, and one of
\* them has been answered with its own.
C14_Witness ==
    /\ ctxs[1].key = ctxs[2].key
    /\ ctxs[1].pc = "done"
    /\ ctxs[2].pc = "running"
    /\ ctxs[1].context.state["user"] = "v1"
    /\ ctxs[2].context.state["user"] = "v2"
    /\ ctxs[1].context.response = built("json", 1)
    /\ ctxs[2].context.response = built("error", 1)
    /\ ctxs[1].result = Returned(built("json", 1))

(***************************************************************************)
(* Properties of the response builders                                     *)
(***************************************************************************)

\* C16: a route handler that returns the Response of notFound(), in a
\* request in which no builder has recorded a response, is answered with
\* that plain-text 404 Response.
C16_NotFoundReturned ==
    (/\ req.pc = "done"
     /\ req.via = "routes"
     /\ req.thrown = "none"
     /\ req.response = NoResponse
     /\ req.returned = built("notFound", Terminal)) =>
        req.result = Returned(req.returned)

\* The indices in the trace of the calls of recording builders.
Recordings ==
    {j \in 1..Len(req.trace) : req.trace[j].ev \in RecordingBuilders}

\* C17: after any sequence of builder calls in a request, the response
\* recorded in the Context is the one made by the last call of json, text,
\* redirect or error, calls of notFound() change nothing, and on normal
\* completion the dispatch function returns that response.
C17_LastCallWins ==
    LET j == lastRecording(Recordings) IN
    /\ req.response = IF Recordings = {} THEN NoResponse
                      ELSE built(req.trace[j].ev, req.trace[j].at)
    /\ (req.pc = "done" /\ req.thrown = "none" /\ Recordings # {}) =>
           req.result = Returned(built(req.trace[j].ev, req.trace[j].at))

\* A middleware has recorded with json, the route handler has overwritten
\* it with error, the middleware has then called notFound(), and the
\* request has completed normally.
C17_Witness ==
    /\ req.pc = "done"
    /\ req.thrown = "none"
    /\ \E i, j, k \in 1..Len(req.trace) :
           /\ i < j /\ j < k
           /\ At({"json"}, 1, i) /\ At({"error"}, 2, j) /\ At({"notFound"}, 1, k)
    /\ req.result = Returned(built("error", 2))

\* C20: every error response that a dispatch function returns, the 500 that
\* it makes for a thrown error or a missing response included, has the JSON
\* body {error: {message, status, ...details}}, unless it is the plain-text
\* 404 of notFound().
C20_ErrorShape ==
    (req.pc = "done" /\ req.via = "routes" /\ req.result.kind = "response"
        /\ req.result.response.status >= 400) =>
        \/ req.result.response.shape = "error:{message,status}"
        \/ \E k \in 1..Terminal : req.result.response = built("notFound", k)

(***************************************************************************)
(* Properties of the order of middlewares across mounts                    *)
(***************************************************************************)

\* The flattened middlewares a and b tie on the criteria 1 to 5.
Tie(a, b) == \A c \in 1..5 : SpecificityKey(a)[c] = SpecificityKey(b)[c]

\* The position in the chain of the request of the flattened middleware m.
PositionOf(m) == CHOOSE k \in 1..Len(req.next) : req.next[k] = handlerOf(m)

\* C23: when a middleware of the instance whose table is served and a
\* middleware of an instance mounted into it both apply to the route and
\* tie on the criteria 1 to 5, the mounted one starts to run only after the
\* instance's own has.
C23_DeclareBeforeMount ==
    req.via = "routes" =>
        LET ms == Applicable IN
        \A i, j \in 1..Len(ms) :
            (/\ ms[i].middleware.app = table.app
             /\ ms[j].middleware.app # table.app
             /\ Tie(ms[i], ms[j])) =>
                \A t \in 1..Len(req.trace) :
                    At({"pre"}, PositionOf(ms[j]), t) =>
                        Earlier({"pre"}, PositionOf(ms[i]), t)

\* C24: in the flattened middleware view of every instance the ordinals
\* increase strictly along the sequence (own middlewares, then those of each
\* mounted instance in the order of the mount calls), so no two entries
\* share an ordinal.
C24_OrdinalsIncreasing ==
    \A a \in Apps :
        LET ms == Rest_middlewares(a) IN
        \A i, j \in 1..Len(ms) : i < j => ms[i].order < ms[j].order

\* The (pattern, ordinal) entries of the middlewares that apply to the
\* flattened route r of instance a.
Entries(a, r) ==
    LET ms == middlewaresOf(a, r.path)
    IN  {[path |-> ms[i].path, order |-> ms[i].order] : i \in 1..Len(ms)}

\* C25: on the entries that apply to a route the comparator is a strict
\* total order: of two distinct entries exactly one sorts before the other,
\* the relation is transitive, and of two entries of the literal pattern `*`
\* the one of the lower ordinal sorts first.
C25_StrictTotalOrder ==
    \A a \in Apps : \A r \in Range(getRoutes(a)) :
        LET E == Entries(a, r) IN
        /\ \A x, y \in E :
               x # y => ((compare(x, y) < 0) # (compare(y, x) < 0))
        /\ \A x, y, z \in E :
               (compare(x, y) < 0 /\ compare(y, z) < 0) => compare(x, z) < 0
        /\ \A x, y \in E :
               (x.path = P_star /\ y.path = P_star /\ x.order < y.order) =>
                   compare(x, y) < 0

(***************************************************************************)
(* Properties of the patterns of middlewares                               *)
(***************************************************************************)

\* The flattened middleware m of instance a is in the chain of the
\* flattened route r.
Applies(a, m, r) ==
    \E i \in 1..Len(middlewaresOf(a, r.path)) :
        middlewaresOf(a, r.path)[i].middleware = m.middleware

\* C26: a `*` in a pattern matches also an empty remainder: a middleware
\* applies to the route whose path is its pattern without the `*`.
C26_StarMatchesEmpty ==
    \A a \in Apps :
        \A m \in Range(Rest_middlewares(a)) : \A r \in Range(getRoutes(a)) :
            \A k \in 1..Len(m.path) :
                (/\ m.path[k] = "*"
                 /\ r.path = SubSeq(m.path, 1, k - 1)
                                 \o SubSeq(m.path, k + 1, Len(m.path))) =>
                    Applies(a, m, r)

\* C27: a middleware registered at a literal path is in the chain of a
\* request exactly when the concrete path of the request equals its pattern
\* or goes on after it with a "/", also when the request is served by a
\* parameterized route.
C27_ConcretePath ==
    (req.via = "routes" /\ req.pc # "idle") =>
        \A m \in Range(Rest_middlewares(table.app)) :
            (\A i \in 1..Len(m.path) : m.path[i] \notin {"*", ":"}) =>
                (PrefixOrExact(m.path, req.url) <=>
                     \E k \in 1..Len(req.next) : req.next[k] = handlerOf(m))

(***************************************************************************)
(* Properties of the registration of middlewares                           *)
(***************************************************************************)

\* A call of use that ends in an error registers nothing.
FailedUseRegistersNothing ==
    (last'.op = "use" /\ last'.outcome # "ok") => middlewares' = middlewares

\* A call of use with a handler that cannot be invoked ends in an error.
UseRefusesHandler ==
    \A a \in Apps : \A ps \in CfgUsePaths :
        Use(a, ps, "undefined") => last'.outcome # "ok"

\* No registered middleware has a handler that cannot be invoked.
NoInvalidMiddleware ==
    \A a \in Apps : \A i \in 1..Len(middlewares[a]) :
        middlewares[a][i].handler = "function"

\* C28: use fails in the call itself when a path is no string or the
\* handler cannot be invoked, a failing call registers no middleware, not
\* even for the paths before the invalid one, and so no middleware with an
\* invalid handler is left to fail at request time.
C28_UseValidates ==
    /\ [][FailedUseRegistersNothing]_vars
    /\ [][UseRefusesHandler]_vars
    /\ []NoInvalidMiddleware

\* The pattern with which the flattened middleware m was registered.
registeredAt(m) == middlewares[m.middleware.app][m.middleware.idx].path

\* C29: when an instance b is mounted into a parent under a prefix other
\* than "/", each middleware that b registered at the literal `*` is in the
\* chain of every route of b in the parent's table, and no middleware
\* registered at another pattern is sorted after it.
C29_MountedStar ==
    \A a \in Apps : \A k \in 1..Len(mounts[a]) :
        LET b == mounts[a][k].app IN
        mounts[a][k].path # P_root =>
            \A r \in Range(getRoutes(a)) : \A i \in 1..Len(middlewares[b]) :
                (r.route.app = b /\ middlewares[b][i].path = P_star) =>
                    LET ms == middlewaresOf(a, r.path) IN
                    \E x \in 1..Len(ms) :
                        /\ ms[x].middleware = [app |-> b, idx |-> i]
                        /\ \A y \in (x + 1)..Len(ms) : registeredAt(ms[y]) = P_star

(***************************************************************************)
(* Properties of the reads of the flattened routes and of the table        *)
(***************************************************************************)

\* The routes in the mount tree of instance a as they are registered now:
\* each own route, and each route of the tree of an instance that a mounts,
\* its path under the prefix of that mount; d bounds the depth of the tree.
RECURSIVE Registered(_, _)
Registered(a, d) ==
    {[route |-> [app |-> a, idx |-> i],
      path |-> routePath(<<>>, routes[a][i].path),
      method |-> routes[a][i].method] : i \in 1..Len(routes[a])}
    \cup
    (IF d = 0 THEN {}
     ELSE UNION {{[route |-> r.route,
                   path |-> routePath(mountPrefix(mounts[a][k].path), r.path),
                   method |-> r.method] :
                      r \in Registered(mounts[a][k].app, d - 1)} :
                 k \in 1..Len(mounts[a])})

\* C30: every read reflects the registrations of the whole mount tree as
\* they are at the read, those made on a mounted instance after its mount
\* and those made after an earlier read included: getRoutes lists exactly
\* the routes registered in the tree, and the table that the last read
\* returned, while nothing has been registered since, has exactly their
\* keys, each with a route of that key as its terminal handler and with
\* every `*` middleware of the instance in its chain.
C30_ReadsAreCurrent ==
    /\ \A a \in Apps : Range(getRoutes(a)) = Registered(a, Cardinality(Apps))
    /\ last.op = "routes" =>
           LET rs == Registered(table.app, Cardinality(Apps)) IN
           /\ DOMAIN table.routes = {<<r.path, r.method>> : r \in rs}
           /\ \A k \in DOMAIN table.routes :
                  LET next == table.routes[k].next IN
                  /\ \E r \in rs :
                         /\ <<r.path, r.method>> = k
                         /\ next[Len(next)] =
                                [kind |-> "route", app |-> r.route.app,
                                 idx |-> r.route.idx]
                  /\ \A i \in 1..Len(middlewares[table.app]) :
                         middlewares[table.app][i].path = P_star =>
                             \E j \in 1..Len(next) :
                                 next[j] = [kind |-> "middleware",
                                            app |-> table.app, idx |-> i]

\* The table of A has just been read, with C mounted in B and B in A: the
\* route of C is in it under both prefixes, in the chain of the middleware
\* of A, next to A's own route.
C30_Witness ==
    /\ last.op = "routes"
    /\ table.app = "A"
    /\ <<P_api \o <<"/", "v", "1">> \o P_x, "GET">> \in DOMAIN table.routes
    /\ Len(table.routes[<<P_api \o <<"/", "v", "1">> \o P_x, "GET">>].next) = 2
    /\ Len(routes["A"]) = 1

(***************************************************************************)
(* Properties of the parsing of the body                                   *)
(***************************************************************************)

\* C31: parse never rejects because the body fails to decode: for every
\* supported content type it resolves to null then, and it resolves to null
\* when the content type is absent or not supported.
C31_ParseSwallowsFailure ==
    parsing.pc = "parsed" =>
        /\ parsing.body.fails => parsing.result = ResolvedNull
        /\ parsing.contentType \in {"", "image/png"} => parsing.result = ResolvedNull

(***************************************************************************)
(* Properties of routes that flatten to one key                            *)
(***************************************************************************)

\* The terminal route handler of the entry of key k in the table tbl.
terminalOf(tbl, k) == tbl[k].next[Len(tbl[k].next)]

\* C32: when routes of different instances of the mount tree of a flatten
\* to one method and path, both were registered and getRoutes lists both;
\* the table of a has one entry for the key, whose handler is the route that
\* comes last in getRoutes, where the own routes of a come before the
\* routes of its mounts: a route of a mounted instance replaces the own
\* route of a.
C32_LastFlattenedWins ==
    \A a \in Apps :
        LET rs == getRoutes(a)
            tbl == Rest_routes(a)
        IN  \A i, j \in 1..Len(rs) :
                (/\ i < j
                 /\ rs[i].path = rs[j].path
                 /\ rs[i].method = rs[j].method
                 /\ rs[i].route.app # rs[j].route.app) =>
                    LET k == <<rs[i].path, rs[i].method>>
                        h == terminalOf(tbl, k)
                    IN  /\ k \in DOMAIN tbl
                        /\ rs[j].route.app # a
                        /\ h # [kind |-> "route", app |-> rs[i].route.app,
                                idx |-> rs[i].route.idx]
                        /\ \E m \in j..Len(rs) :
                               /\ <<rs[m].path, rs[m].method>> = k
                               /\ h = [kind |-> "route", app |-> rs[m].route.app,
                                       idx |-> rs[m].route.idx]
                               /\ \A n \in (m + 1)..Len(rs) :
                                      <<rs[n].path, rs[n].method>> # k

\* A has its own route GET /x and mounts C, which has a route GET /x, at
\* "/": getRoutes of A lists both under /x, and the last registration call
\* succeeded.
C32_Witness ==
    /\ \E i \in 1..Len(routes["A"]) :
           routes["A"][i].method = "GET" /\ routes["A"][i].path = P_x
    /\ \E i \in 1..Len(routes["C"]) :
           routes["C"][i].method = "GET" /\ routes["C"][i].path = P_x
    /\ \E k \in 1..Len(mounts["A"]) :
           mounts["A"][k].app = "C" /\ mounts["A"][k].path = P_root
    /\ Cardinality({i \in 1..Len(getRoutes("A")) :
                       getRoutes("A")[i].path = P_x
                       /\ getRoutes("A")[i].method = "GET"}) = 2
    /\ last.outcome = "ok"

(***************************************************************************)
(* Properties of the middlewares of mounted instances                      *)
(***************************************************************************)

\* C33: a middleware of an instance b that is mounted into a under a prefix
\* other than "/" is, in the table of a, in the chain only of routes whose
\* path is the prefix or goes on after it with a "/".
C33_ConfinedToPrefix ==
    \A a \in Apps : \A k \in 1..Len(mounts[a]) :
        LET b == mounts[a][k].app
            q == mounts[a][k].path
        IN  q # P_root =>
                \A r \in Range(getRoutes(a)) : \A i \in 1..Len(middlewares[b]) :
                    Applies(a, [middleware |-> [app |-> b, idx |-> i]], r) =>
                        PrefixOrExact(q, r.path)

(***************************************************************************)
(* Properties of the recursion over the mounts                             *)
(***************************************************************************)

\* C34: no call of getRoutes, of the getter middlewares or of the getter
\* routes ends with the call stack exhausted, whatever the mounts are, and
\* a call that has returned has, for every mount of the instance, the
\* entries of the mounted instance once under the prefix of that mount.
C34_FlatteningTerminates ==
    /\ flat.pc # "RangeError"
    /\ flat.pc = "done" =>
           flat.result =
               ownEntries(flat.phase, flat.app)
               \o Flat([k \in 1..Len(mounts[flat.app]) |->
                           mountedEntries(flat.phase, flat.app, mounts[flat.app][k],
                               IF flat.phase = "getRoutes"
                               THEN getRoutes(mounts[flat.app][k].app)
                               ELSE Rest_middlewares(mounts[flat.app][k].app))])

(***************************************************************************)
(* Properties of a next(context) that is not awaited                       *)
(***************************************************************************)

\* The 500 response that the dispatch function makes when next(context) has
\* settled and the Context has no response.
NoResponseSet == Returned(Response(500, "error,message", message("NoResponse"), 0))

\* C35: when the dispatch function has decided on the 500 "No response set
\* in context", no handler that it started has recorded a response or goes
\* on to record one while the answer stands: a response that the terminal
\* route handler records is not missed.
C35_ResponseNotMissed ==
    (req.pc = "done" /\ req.result = NoResponseSet) =>
        \A i \in 1..Len(detached.run.trace) :
            ~(/\ detached.run.trace[i].ev \in RecordingBuilders
              /\ detached.run.trace[i].at = Len(req.next))

====
